---- MODULE Spec2Model ----
(***************************************************************************)
(* BMesh Bend (src/bmesh_bend/__init__.py): the rest-pose cache, the curve *)
(* sampler with its propagated frames, the deformer and the update logic   *)
(* that the property callbacks, operators and handlers drive.              *)
(*                                                                         *)
(* Numbers.  Coordinates are fixed-point integers in units of 1/8, so the  *)
(* curve from (0,0,0) to (10,0,0) is <<0,0,0>> .. <<80,0,0>>.  The curves  *)
(* and transforms of the model are axis-aligned (control polygons along    *)
(* the coordinate axes, rigid transforms by quarter turns), so that every  *)
(* normalisation, length, rotation and interpolation below is exact.       *)
(* Vectors are <<x, y, z>>; 3x3 matrices are triples of rows.              *)
(***************************************************************************)
EXTENDS Integers, Sequences, FiniteSets, TLC

VARIABLES
    \* ---- the mesh object (bpy.types.Object, one instance) ----
    bmesh_bend_active,            \* BoolProperty
    bmesh_bend_curve_target,      \* PointerProperty: a name in CurveNames, or None
    bmesh_bend_deform_axis,       \* EnumProperty
    bmesh_bend_animation_factor,  \* FloatProperty
    bmesh_bend_resolution,        \* IntProperty
    bmesh_bend_strength,          \* FloatProperty
    matrix_world,                 \* obj.matrix_world
    vertices,                     \* obj.data.vertices: the live coordinates
    \* ---- module state ----
    cache,                        \* _RUNTIME_CACHE at the object's key
    \* ---- observation of the last handler ----
    outcome,                      \* what the last handler did
    mapped,                       \* per vertex, the locals of the last deform pass
    rest,                         \* the coordinates the mesh has when undeformed
    steps,                        \* handlers and edits run so far
    edits,                        \* topology edits so far
    deforms,                      \* deform passes since the cached snapshot was taken
    again,                        \* the last pass repeated the one before, inputs unchanged
    \* ---- the sampler on its own ----
    s_curve, s_resolution, s_result

vars == <<bmesh_bend_active, bmesh_bend_curve_target, bmesh_bend_deform_axis,
          bmesh_bend_animation_factor, bmesh_bend_resolution, bmesh_bend_strength,
          matrix_world, vertices, cache, outcome, mapped, rest, steps, edits, deforms, again,
          s_curve, s_resolution, s_result>>

objvars == <<bmesh_bend_active, bmesh_bend_curve_target, bmesh_bend_deform_axis,
             bmesh_bend_animation_factor, bmesh_bend_resolution, bmesh_bend_strength,
             matrix_world, vertices, cache, outcome, mapped, rest, steps, edits, deforms, again>>

samplevars == <<s_curve, s_resolution, s_result>>

None == "None"

\* ------------------------------------------------------------------------
\* Bounds of the model
\* ------------------------------------------------------------------------
MaxSteps == 5
MaxVerts == 2

\* ------------------------------------------------------------------------
\* mathutils: Vector and Matrix arithmetic
\* ------------------------------------------------------------------------
Abs(x) == IF x < 0 THEN -x ELSE x
Max(a, b) == IF a > b THEN a ELSE b
Min(a, b) == IF a < b THEN a ELSE b

\* Exact quotient of integers, rounding toward zero like float division of
\* the grid values it is applied to (which it always divides exactly).
Quot(a, b) == IF (a < 0) = (b < 0) THEN Abs(a) \div Abs(b) ELSE -(Abs(a) \div Abs(b))

Zero3 == <<0, 0, 0>>
Add(a, b) == <<a[1] + b[1], a[2] + b[2], a[3] + b[3]>>
Sub(a, b) == <<a[1] - b[1], a[2] - b[2], a[3] - b[3]>>
Scale(a, k) == <<a[1] * k, a[2] * k, a[3] * k>>
DivVec(a, k) == <<Quot(a[1], k), Quot(a[2], k), Quot(a[3], k)>>
Dot(a, b) == a[1] * b[1] + a[2] * b[2] + a[3] * b[3]
Cross(a, b) == <<a[2] * b[3] - a[3] * b[2],
                 a[3] * b[1] - a[1] * b[3],
                 a[1] * b[2] - a[2] * b[1]>>

\* Integer square root (exact on the squares the model meets).
ISqrt(n) == CHOOSE r \in 0..n : r * r <= n /\ (r + 1) * (r + 1) > n

\* Vector.length
Length(v) ==
    IF Cardinality({i \in 1..3 : v[i] # 0}) <= 1
    THEN Abs(v[1]) + Abs(v[2]) + Abs(v[3])
    ELSE ISqrt(Dot(v, v))

\* Vector.normalized(): a zero vector stays the zero vector, no error is raised.
Normalized(v) == IF Length(v) = 0 THEN Zero3 ELSE DivVec(v, Length(v))

\* Vector.lerp(other, frac) with frac = num / den
Lerp(p0, p1, num, den) == Add(p0, DivVec(Scale(Sub(p1, p0), num), den))

Identity3 == <<<<1, 0, 0>>, <<0, 1, 0>>, <<0, 0, 1>>>>
MatVec(m, v) == <<Dot(m[1], v), Dot(m[2], v), Dot(m[3], v)>>
Transposed(m) == <<<<m[1][1], m[2][1], m[3][1]>>,
                   <<m[1][2], m[2][2], m[3][2]>>,
                   <<m[1][3], m[2][3], m[3][3]>>>>
Det(m) == Dot(m[1], Cross(m[2], m[3]))

\* A 4x4 object transform is [rot |-> its 3x3 part, loc |-> its translation].
IdentityMatrix == [rot |-> Identity3, loc |-> Zero3]
\* Matrix @ Vector for a 4x4 transform
Apply(M, v) == Add(MatVec(M.rot, v), M.loc)
\* Matrix.to_3x3()
To3x3(M) == M.rot
\* Matrix.inverted() of a rigid transform: transposed rotation, moved-back origin
Inverted(M) == [rot |-> Transposed(M.rot),
                loc |-> Scale(MatVec(Transposed(M.rot), M.loc), -1)]

\* Matrix.Rotation(angle, 3, axis) @ v, with angle = prev.angle(t) between the
\* unit vectors prev and t and axis = prev.cross(t).normalized() (Rodrigues'
\* formula; cos and sin of the angle are prev.t and |prev x t|).
RotateAbout(prev, t, v) ==
    LET a == Normalized(Cross(prev, t))
        c == Dot(prev, t)
        s == Length(Cross(prev, t))
    IN Add(Add(Scale(v, c), Scale(Cross(a, v), s)), Scale(a, Dot(a, v) * (1 - c)))

\* ------------------------------------------------------------------------
\* Curve sampling and frames
\* ------------------------------------------------------------------------
\* A curve object is [matrix_world, splines]; a spline is
\* [bezier_points, points, has_evaluate], bezier_points a sequence of
\* vectors and points a sequence of <<x, y, z, w>>.

\* coords of the fallback: bezier_points if there are any, else points / w
\* (w = 0 divides by 1.0).
FallbackCoords(spline) ==
    IF Len(spline.bezier_points) # 0
    THEN spline.bezier_points
    ELSE [k \in 1..Len(spline.points) |->
            LET p == spline.points[k]
            IN DivVec(<<p[1], p[2], p[3]>>, IF p[4] # 0 THEN p[4] ELSE 1)]

\* seg = u * (len(coords) - 1), idx = int(seg), frac = seg - idx, with the
\* clamp of the last piece; u = i / resolution.  idx is 0-based as in the code.
Piece(coords, i, resolution) ==
    LET num == i * (Len(coords) - 1)
        idx == num \div resolution
    IN IF idx >= Len(coords) - 1
       THEN [idx |-> Len(coords) - 2, num |-> resolution, den |-> resolution]
       ELSE [idx |-> idx, num |-> num % resolution, den |-> resolution]

\* spline.evaluate(u) and spline.evaluate_derivative(u) of the host, for a
\* spline that offers them: the poly spline through its control points,
\* parametrised uniformly per piece; the derivative is that of the position.
Evaluate(spline, i, resolution) ==
    LET coords == FallbackCoords(spline)
        pc == Piece(coords, i, resolution)
    IN Lerp(coords[pc.idx + 1], coords[pc.idx + 2], pc.num, pc.den)

EvaluateDerivative(spline, i, resolution) ==
    LET coords == FallbackCoords(spline)
        pc == Piece(coords, i, resolution)
    IN Scale(Sub(coords[pc.idx + 2], coords[pc.idx + 1]), Len(coords) - 1)

\* One pass of the loop body at lines 93-110: the sample [co, tan] at i.
SampleAt(spline, M, i, resolution) ==
    IF spline.has_evaluate
    THEN [co |-> Apply(M, Evaluate(spline, i, resolution)),
          tan |-> Normalized(MatVec(To3x3(M), EvaluateDerivative(spline, i, resolution)))]
    ELSE LET coords == FallbackCoords(spline)
             pc == Piece(coords, i, resolution)
             p0 == coords[pc.idx + 1]
             p1 == coords[pc.idx + 2]
         IN [co |-> Apply(M, Lerp(p0, p1, pc.num, pc.den)),
             tan |-> Normalized(MatVec(To3x3(M), Sub(p1, p0)))]

\* The loop over curve.splines: splines with fewer than 2 control points are
\* skipped, the others contribute resolution + 1 samples each, in order.
RECURSIVE SplineSamples(_, _, _, _)
SplineSamples(splines, M, resolution, k) ==
    IF k > Len(splines) THEN <<>>
    ELSE LET spline == splines[k]
             mine == IF Len(spline.bezier_points) + Len(spline.points) < 2
                     THEN <<>>
                     ELSE [j \in 1..(resolution + 1) |->
                              SampleAt(spline, M, j - 1, resolution)]
         IN mine \o SplineSamples(splines, M, resolution, k + 1)

\* normal = (rot @ normal).normalized() when the tangent turned (|prev x t| > 1e-6),
\* else the normal is carried over unchanged.
NextNormal(prev, t, normal) ==
    IF Length(Cross(prev, t)) > 0
    THEN Normalized(RotateAbout(prev, t, normal))
    ELSE normal

\* The frame appended at one pass of the loop at lines 121-123: it is built
\* from the tangent of this sample and the running normal as it stands when
\* the pass begins.
EmitFrame(t, normal) ==
    <<Normalized(t), Normalized(normal), Normalized(Cross(t, normal))>>

\* The loop at lines 121-132 from pass i on (1-based): frames so far in acc.
RECURSIVE FrameLoop(_, _, _, _, _)
FrameLoop(tangents, i, normal, prev, acc) ==
    IF i > Len(tangents) THEN acc
    ELSE LET t == tangents[i]
         IN FrameLoop(tangents, i + 1, NextNormal(prev, t, normal), t,
                      Append(acc, EmitFrame(t, normal)))

\* lengths: 0.0 first, then total_len += (points[i] - points[i-1]).length
RECURSIVE LengthLoop(_, _, _)
LengthLoop(points, i, acc) ==
    IF i > Len(points) THEN acc
    ELSE LengthLoop(points, i + 1,
                    Append(acc, acc[Len(acc)] + Length(Sub(points[i], points[i - 1]))))

Up == <<0, 0, 1>>

\* Lines 112-133 on the samples the spline loop collected: the early return
\* on no points, else the frames and the cumulative lengths.
sample_frames(samples) ==
    LET points == [k \in 1..Len(samples) |-> samples[k].co]
        tangents == [k \in 1..Len(samples) |-> samples[k].tan]
    IN IF Len(points) = 0
       THEN [points |-> <<>>, frames |-> <<>>, lengths |-> <<>>]
       ELSE LET normal == Normalized(Sub(Up, Scale(tangents[1], Dot(Up, tangents[1]))))
            IN [points |-> points,
                frames |-> FrameLoop(tangents, 1, normal, tangents[1], <<>>),
                lengths |-> LengthLoop(points, 2, <<0>>)]

\* sample_curve(curve_obj, depsgraph, resolution): [points, frames, lengths]
sample_curve(curve_obj, resolution) ==
    sample_frames(SplineSamples(curve_obj.splines, curve_obj.matrix_world, resolution, 1))

\* The tangents sample_curve normalises (lines 109-110), for the claims about them.
sample_tangents(curve_obj, resolution) ==
    LET samples == SplineSamples(curve_obj.splines, curve_obj.matrix_world, resolution, 1)
    IN [k \in 1..Len(samples) |-> samples[k].tan]


\* ------------------------------------------------------------------------
\* The scene: curve objects a mesh can target, the meshes, the transforms
\* ------------------------------------------------------------------------
Bezier(pts) == [bezier_points |-> pts, points |-> <<>>, has_evaluate |-> FALSE]
Poly(pts) == [bezier_points |-> <<>>, points |-> pts, has_evaluate |-> FALSE]

\* A quarter turn about Z, moved by (16, 0, 0)
Turned == [rot |-> <<<<0, -1, 0>>, <<1, 0, 0>>, <<0, 0, 1>>>>, loc |-> <<16, 0, 0>>]

CurveNames == {"Line", "Joined", "Turn", "Dot", "Blank"}

CurveObjects == [n \in CurveNames |->
    CASE n = "Line" ->      \* straight, (0,0,0) to (10,0,0)
           [matrix_world |-> IdentityMatrix,
            splines |-> <<Bezier(<<<<0, 0, 0>>, <<80, 0, 0>>>>)>>]
      [] n = "Joined" ->    \* a one-point spline, then two splines end to end
           [matrix_world |-> IdentityMatrix,
            splines |-> <<Poly(<<<<0, 0, 0, 1>>>>),
                          Poly(<<<<0, 0, 0, 1>>, <<16, 0, 0, 1>>>>),
                          Poly(<<<<32, 0, 0, 2>>, <<64, 0, 0, 2>>>>)>>]
      [] n = "Turn" ->      \* along its local X, turned and moved in the world
           [matrix_world |-> Turned,
            splines |-> <<[bezier_points |-> <<<<0, 0, 0>>, <<32, 0, 0>>>>,
                           points |-> <<>>, has_evaluate |-> TRUE]>>]
      [] n = "Dot" ->       \* a single control point
           [matrix_world |-> IdentityMatrix,
            splines |-> <<Bezier(<<<<0, 0, 0>>>>)>>]
      [] n = "Blank" ->     \* no splines
           [matrix_world |-> IdentityMatrix, splines |-> <<>>]]

Meshes == { <<<<40, 8, 0>>>>,
            <<<<0, 8, 0>>, <<96, 0, 8>>>> }

NewVertex == <<16, 16, 0>>

Transforms == {IdentityMatrix, Turned}
\* The axes the model selects among the six of AXIS_MAP
AxesTried == {"X", "-Y"}
Resolutions == {8, 16}
AnimationFactors == {0, 1}
Strengths == {0, 1}

\* sample_curve on the curves of the scene, tabulated once: deform_object
\* looks its samples up here instead of recomputing them at every call.
SampleTable ==
    [x \in {<<CurveObjects[n], r>> : n \in CurveNames, r \in Resolutions} |->
        sample_curve(x[1], x[2])] @@ <<>>

\* ------------------------------------------------------------------------
\* Cache helpers
\* ------------------------------------------------------------------------
\* _RUNTIME_CACHE at the object's key: no entry, an empty dictionary, or a
\* dictionary holding 'orig_coords' and 'cached_matrix'.
NoEntry == [entry |-> FALSE, has_orig |-> FALSE,
            orig_coords |-> <<>>, cached_matrix |-> IdentityMatrix]

\* ensure_cache(obj): the entry, created empty when missing
ensure_cache(c) == IF c.entry THEN c ELSE [c EXCEPT !.entry = TRUE]

\* cache_original_coords(obj): snapshot once, keep an existing snapshot
cache_original_coords(c, verts, mw) ==
    LET e == ensure_cache(c)
    IN IF ~e.has_orig
       THEN [e EXCEPT !.has_orig = TRUE, !.orig_coords = verts, !.cached_matrix = mw]
       ELSE e

\* for v, co in zip(bm.verts, coords): v.co = co -- the pairs that exist are
\* written, vertices beyond the shorter sequence keep their coordinates.
ZipWrite(verts, coords) ==
    [k \in 1..Len(verts) |-> IF k <= Len(coords) THEN coords[k] ELSE verts[k]]

\* restore_original_coords without the write-back of lines 66-68
restore_without_write(c, verts) ==
    LET e == ensure_cache(c)
    IN [cache |-> e, vertices |-> verts,
        outcome |-> IF e.has_orig THEN "restored" ELSE "restore_noop"]

\* restore_original_coords(obj): [cache, vertices, outcome]
restore_original_coords(c, verts) ==
    LET e == ensure_cache(c)
    IN IF e.has_orig
       THEN [cache |-> e, vertices |-> ZipWrite(verts, e.orig_coords), outcome |-> "restored"]
       ELSE [cache |-> e, vertices |-> verts, outcome |-> "restore_noop"]

\* ------------------------------------------------------------------------
\* Deformation
\* ------------------------------------------------------------------------
DeformAxes == {"X", "-X", "Y", "-Y", "Z", "-Z"}

\* AXIS_MAP: (axis_idx, axis_sign); the index is 1-based here
AXIS_MAP == [a \in DeformAxes |->
    CASE a = "X" -> <<1, 1>> [] a = "-X" -> <<1, -1>>
      [] a = "Y" -> <<2, 1>> [] a = "-Y" -> <<2, -1>>
      [] a = "Z" -> <<3, 1>> [] a = "-Z" -> <<3, -1>>]

\* 1e-6 of line 152, which rounds to 0 in units of 1/8
Eps == 0

IsRotation(m) ==
    /\ \A i \in 1..3 : Dot(m[i], m[i]) = 1
    /\ \A i, j \in 1..3 : i # j => Dot(m[i], m[j]) = 0
    /\ Det(m) = 1

\* frame_to_quat without .transposed(): the frame vectors as rows
frame_to_quat_rows(frame) ==
    CHOOSE q \in {frame} : IsRotation(q)

\* frame_to_quat(frame): Matrix((t, n, b)).transposed().to_quaternion().  A
\* quaternion is held as the rotation matrix it stands for; for a right-handed
\* orthonormal frame that is the matrix with columns t, n, b.  (No value is
\* given for other frames: none occurs on the curves of CurveObjects.)
frame_to_quat(frame) ==
    LET mat == Transposed(frame)
    IN CHOOSE q \in {mat} : IsRotation(q)

\* Quaternion.slerp(other, frac), frac = num / den: exact at equal ends and at
\* the two ends of the interval.
Slerp(q0, q1, num, den) ==
    CHOOSE q \in {q0, q1} : \/ q0 = q1
                            \/ (num = 0 /\ q = q0)
                            \/ (num = den /\ q = q1)

\* while i1 < len(lengths) and lengths[i1] < s: i1 += 1  (0-based result)
RECURSIVE Scan(_, _, _)
Scan(lengths, s, i1) ==
    IF i1 < Len(lengths) /\ lengths[i1 + 1] < s THEN Scan(lengths, s, i1 + 1) ELSE i1

\* the clamp of line 171 without its upper bound
ClampS_lower_only(s, curve_len) == Max(0, s)

\* s = max(0.0, min(curve_len, s))
ClampS(s, curve_len) == Max(0, Min(curve_len, s))

\* Lines 172-179: the bracketing indices (0-based) and frac = num / den
Bracket(lengths, s) ==
    LET j == Scan(lengths, s, 0)
        i1 == IF j >= Len(lengths) THEN Len(lengths) - 1 ELSE j
        i0 == Max(i1 - 1, 0)
        seg_len == lengths[i1 + 1] - lengths[i0 + 1]
    IN IF seg_len = 0
       THEN [i0 |-> i0, i1 |-> i1, num |-> 0, den |-> 1]
       ELSE [i0 |-> i0, i1 |-> i1, num |-> s - lengths[i0 + 1], den |-> seg_len]

\* the pair (v, orig) read from the vertex instead of the cache
RestOfLive(v_co, orig) == v_co

\* orig_coords as the loop at line 169 reads them: the cached coordinate of
\* the pair, whatever the vertex holds now.
RestOf(v_co, orig) == orig

\* One pass of the loop at lines 169-189 for the pair (v, orig): the locals
\* and the coordinate written to v.co.
DeformVertex(v_co, orig, sc, quats, axis, start_pos, bbox_min, cached_matrix, mw, strength) ==
    LET o == RestOf(v_co, orig)
        axis_idx == AXIS_MAP[axis][1]
        axis_sign == AXIS_MAP[axis][2]
        curve_len == sc.lengths[Len(sc.lengths)]
        sraw == start_pos + (o[axis_idx] - bbox_min)
        s == ClampS(sraw, curve_len)
        br == Bracket(sc.lengths, s)
        point == Lerp(sc.points[br.i0 + 1], sc.points[br.i1 + 1], br.num, br.den)
        quat == Slerp(quats[br.i0 + 1], quats[br.i1 + 1], br.num, br.den)
        mat == IF axis_sign = -1
               THEN <<Scale(quat[1], -1), quat[2], quat[3]>>
               ELSE quat
        offset == [o EXCEPT ![axis_idx] = 0]
        world_offset == MatVec(To3x3(cached_matrix), offset)
        new_world == Add(point, Scale(MatVec(mat, world_offset), strength))
    IN [sraw |-> sraw, s |-> s, i0 |-> br.i0, i1 |-> br.i1,
        num |-> br.num, den |-> br.den, point |-> point,
        co |-> Apply(Inverted(mw), new_world)]

\* the early return, had it put the cached coordinates back first
NoSamplesRestores(c1, verts) ==
    [cache |-> c1, vertices |-> ZipWrite(verts, c1.orig_coords),
     outcome |-> "no_samples", mapped |-> <<>>]

\* Lines 157-159: no samples -- free the bmesh and return, nothing written
NoSamples(c1, verts) ==
    [cache |-> c1, vertices |-> verts, outcome |-> "no_samples", mapped |-> <<>>]

SeqMin(q) == CHOOSE m \in {q[k] : k \in 1..Len(q)} : \A k \in 1..Len(q) : m <= q[k]
SeqMax(q) == CHOOSE m \in {q[k] : k \in 1..Len(q)} : \A k \in 1..Len(q) : m >= q[k]

\* Lines 146-192 of deform_object, given the cache entry c1 as lines 141-144
\* leave it and the samples sc of the curve: [cache, vertices, outcome,
\* mapped].  min() of an empty orig_coords raises ValueError at line 150,
\* after the cache was filled.
deform_cached(c1, sc, verts, mw, deform_axis, anim_factor, strength) ==
    LET orig_coords == c1.orig_coords
        cached_matrix == c1.cached_matrix
    IN IF Len(orig_coords) = 0
       THEN [cache |-> c1, vertices |-> verts, outcome |-> "ValueError", mapped |-> <<>>]
       ELSE
       LET axis_idx == AXIS_MAP[deform_axis][1]
           along == [k \in 1..Len(orig_coords) |-> orig_coords[k][axis_idx]]
           bbox_min == SeqMin(along)
           bbox_max == SeqMax(along)
           bbox_len == Max(bbox_max - bbox_min, Eps)
       IN IF Len(sc.points) = 0
          THEN NoSamples(c1, verts)
          ELSE
          LET quats == [k \in 1..Len(sc.frames) |-> frame_to_quat(sc.frames[k])]
              curve_len == sc.lengths[Len(sc.lengths)]
              start_pos == anim_factor * Max(curve_len - bbox_len, 0)
              pairs == Min(Len(verts), Len(orig_coords))
              pass == [k \in 1..pairs |->
                         DeformVertex(verts[k], orig_coords[k], sc, quats, deform_axis,
                                      start_pos, bbox_min, cached_matrix, mw, strength)]
          IN [cache |-> c1,
              vertices |-> ZipWrite(verts, [k \in 1..pairs |-> pass[k].co]),
              outcome |-> "deformed",
              mapped |-> pass]

\* deform_object(obj, curve_obj, deform_axis, anim_factor, strength, depsgraph)
deform_object(c, verts, mw, resolution, curve_obj, deform_axis, anim_factor, strength) ==
    deform_cached(cache_original_coords(c, verts, mw),
                  SampleTable[<<curve_obj, resolution>>],
                  verts, mw, deform_axis, anim_factor, strength)


\* ------------------------------------------------------------------------
\* Update logic
\* ------------------------------------------------------------------------
\* update_bend(obj, context, depsgraph) with a usable context or depsgraph:
\* [cache, vertices, outcome, mapped]
update_bend(active, target, axis, anim, resolution, strength, c, verts, mw) ==
    IF ~active \/ target = None
    THEN LET r == restore_original_coords(c, verts)
         IN [cache |-> r.cache, vertices |-> r.vertices,
             outcome |-> r.outcome, mapped |-> <<>>]
    ELSE deform_object(c, verts, mw, resolution, CurveObjects[target], axis, anim, strength)

\* What a deform pass reads besides the cache
DeformInputs == <<bmesh_bend_curve_target, bmesh_bend_deform_axis,
                  bmesh_bend_animation_factor, bmesh_bend_resolution,
                  bmesh_bend_strength, matrix_world>>

\* The state after update_bend ran on the object as the primed properties
\* describe it and the cache c.
Updated(c) ==
    \E r \in {update_bend(bmesh_bend_active', bmesh_bend_curve_target',
                          bmesh_bend_deform_axis', bmesh_bend_animation_factor',
                          bmesh_bend_resolution', bmesh_bend_strength',
                          c, vertices, matrix_world')} :
       /\ cache' = r.cache
       /\ vertices' = r.vertices
       /\ outcome' = r.outcome
       /\ mapped' = r.mapped
       /\ deforms' = IF r.outcome = "deformed"
                     THEN (IF c.has_orig THEN deforms + 1 ELSE 1)
                     ELSE (IF c.has_orig THEN deforms ELSE 0)
       /\ again' = (/\ r.outcome = "deformed" /\ outcome = "deformed"
                    /\ r.cache = cache
                    /\ DeformInputs' = DeformInputs)

\* Every step counts against the length of the run the model explores.
Tick == steps < MaxSteps /\ steps' = steps + 1

\* ---- property callbacks (update=update_bend), lines 366-405 ----
SetActive(b) ==
    /\ Tick
    /\ bmesh_bend_active' = b
    /\ UNCHANGED <<bmesh_bend_curve_target, bmesh_bend_deform_axis,
                   bmesh_bend_animation_factor, bmesh_bend_resolution,
                   bmesh_bend_strength, matrix_world, rest, edits>>
    /\ Updated(cache)
    /\ UNCHANGED samplevars

SetCurveTarget(t) ==
    /\ Tick
    /\ bmesh_bend_curve_target' = t
    /\ UNCHANGED <<bmesh_bend_active, bmesh_bend_deform_axis,
                   bmesh_bend_animation_factor, bmesh_bend_resolution,
                   bmesh_bend_strength, matrix_world, rest, edits>>
    /\ Updated(cache)
    /\ UNCHANGED samplevars

SetDeformAxis(a) ==
    /\ Tick
    /\ bmesh_bend_deform_axis' = a
    /\ UNCHANGED <<bmesh_bend_active, bmesh_bend_curve_target,
                   bmesh_bend_animation_factor, bmesh_bend_resolution,
                   bmesh_bend_strength, matrix_world, rest, edits>>
    /\ Updated(cache)
    /\ UNCHANGED samplevars

SetAnimationFactor(f) ==
    /\ Tick
    /\ bmesh_bend_animation_factor' = f
    /\ UNCHANGED <<bmesh_bend_active, bmesh_bend_curve_target, bmesh_bend_deform_axis,
                   bmesh_bend_resolution, bmesh_bend_strength, matrix_world,
                   rest, edits>>
    /\ Updated(cache)
    /\ UNCHANGED samplevars

SetResolution(n) ==
    /\ Tick
    /\ bmesh_bend_resolution' = n
    /\ UNCHANGED <<bmesh_bend_active, bmesh_bend_curve_target, bmesh_bend_deform_axis,
                   bmesh_bend_animation_factor, bmesh_bend_strength, matrix_world,
                   rest, edits>>
    /\ Updated(cache)
    /\ UNCHANGED samplevars

SetStrength(k) ==
    /\ Tick
    /\ bmesh_bend_strength' = k
    /\ UNCHANGED <<bmesh_bend_active, bmesh_bend_curve_target, bmesh_bend_deform_axis,
                   bmesh_bend_animation_factor, bmesh_bend_resolution, matrix_world,
                   rest, edits>>
    /\ Updated(cache)
    /\ UNCHANGED samplevars

\* ---- operators ----
\* BMBEND_OT_setup.execute: delete the cache entry, then update_bend
BMBEND_OT_setup ==
    /\ Tick
    /\ UNCHANGED <<bmesh_bend_active, bmesh_bend_curve_target, bmesh_bend_deform_axis,
                   bmesh_bend_animation_factor, bmesh_bend_resolution,
                   bmesh_bend_strength, matrix_world, rest, edits>>
    /\ Updated(NoEntry)
    /\ UNCHANGED samplevars

\* BMBEND_OT_clear_cache.execute: delete the cache entry, nothing else
BMBEND_OT_clear_cache ==
    /\ Tick
    /\ cache' = NoEntry
    /\ outcome' = "cleared"
    /\ mapped' = <<>>
    /\ deforms' = 0
    /\ again' = FALSE
    /\ UNCHANGED <<bmesh_bend_active, bmesh_bend_curve_target, bmesh_bend_deform_axis,
                   bmesh_bend_animation_factor, bmesh_bend_resolution,
                   bmesh_bend_strength, matrix_world, vertices, rest, edits>>
    /\ UNCHANGED samplevars

\* ---- handlers ----
\* frame_change: update_bend(obj, depsgraph=depsgraph) for an active object
frame_change ==
    /\ Tick
    /\ bmesh_bend_active
    /\ UNCHANGED <<bmesh_bend_active, bmesh_bend_curve_target, bmesh_bend_deform_axis,
                   bmesh_bend_animation_factor, bmesh_bend_resolution,
                   bmesh_bend_strength, matrix_world, rest, edits>>
    /\ Updated(cache)
    /\ UNCHANGED samplevars

\* The object is given the transform m, and depsgraph_update runs for it:
\* update_bend(obj, depsgraph) binds the depsgraph to the parameter context,
\* so with a curve assigned line 204 asks the depsgraph for
\* evaluated_depsgraph_get, which it does not have (AttributeError); with no
\* curve the coordinates are restored.  An inactive object is passed over.
depsgraph_update(m) ==
    /\ Tick
    /\ m # matrix_world
    /\ matrix_world' = m
    /\ UNCHANGED <<bmesh_bend_active, bmesh_bend_curve_target, bmesh_bend_deform_axis,
                   bmesh_bend_animation_factor, bmesh_bend_resolution,
                   bmesh_bend_strength, rest, edits>>
    /\ IF ~bmesh_bend_active
       THEN /\ outcome' = "none"
            /\ mapped' = <<>>
            /\ again' = FALSE
            /\ UNCHANGED <<cache, vertices, deforms>>
       ELSE IF bmesh_bend_curve_target = None
       THEN Updated(cache)
       ELSE /\ outcome' = "AttributeError"
            /\ mapped' = <<>>
            /\ again' = FALSE
            /\ UNCHANGED <<cache, vertices, deforms>>
    /\ UNCHANGED samplevars

\* ---- the host edits the mesh: a vertex is added or the last one removed ----
EditMesh(add) ==
    /\ Tick
    /\ edits' = edits + 1
    /\ IF add
       THEN /\ Len(vertices) < MaxVerts
            /\ vertices' = Append(vertices, NewVertex)
            /\ rest' = Append(rest, NewVertex)
       ELSE /\ Len(vertices) > 0
            /\ vertices' = SubSeq(vertices, 1, Len(vertices) - 1)
            /\ rest' = SubSeq(rest, 1, Len(rest) - 1)
    /\ outcome' = "none"
    /\ mapped' = <<>>
    /\ again' = FALSE
    /\ UNCHANGED <<bmesh_bend_active, bmesh_bend_curve_target, bmesh_bend_deform_axis,
                   bmesh_bend_animation_factor, bmesh_bend_resolution,
                   bmesh_bend_strength, matrix_world, cache, deforms>>
    /\ UNCHANGED samplevars

\* ------------------------------------------------------------------------
\* The sampler on its own: sample_curve applied to a curve
\* ------------------------------------------------------------------------
NotSampled == [called |-> FALSE, raised |-> "", tangents |-> <<>>,
               points |-> <<>>, frames |-> <<>>, lengths |-> <<>>]

\* Control polygons that start at the origin and take one or two steps, each
\* along an axis or of no length at all.
Steps == {<<16, 0, 0>>, <<-16, 0, 0>>, <<0, 16, 0>>, <<0, -16, 0>>,
          <<0, 0, 16>>, <<0, 0, -16>>, <<0, 0, 0>>}
Polygons == {<<Zero3, a>> : a \in Steps} \cup
            {<<Zero3, a, Add(a, b)>> : a \in Steps, b \in Steps}
SampledCurves ==
    {[matrix_world |-> M,
      splines |-> <<[bezier_points |-> pg, points |-> <<>>, has_evaluate |-> e]>>] :
        M \in Transforms, pg \in Polygons, e \in BOOLEAN}
    \cup {CurveObjects[n] : n \in CurveNames}

\* sample_curve runs to its return statement on every curve: no statement of
\* it raises (normalized() of a zero vector is the zero vector, angle() is
\* only asked of vectors whose cross product is not zero).
SampleCurve ==
    /\ ~s_result.called
    /\ \E r \in {sample_curve(s_curve, s_resolution)} :
          s_result' = [called |-> TRUE, raised |-> "",
                       tangents |-> sample_tangents(s_curve, s_resolution),
                       points |-> r.points, frames |-> r.frames, lengths |-> r.lengths]
    /\ UNCHANGED <<s_curve, s_resolution>>
    /\ UNCHANGED objvars

\* ------------------------------------------------------------------------
\* The specification of the object
\* ------------------------------------------------------------------------
\* The properties at their registered defaults (the resolution at the lowest
\* value the property admits), an untouched cache, a mesh at rest.
Init ==
    /\ bmesh_bend_active = FALSE
    /\ bmesh_bend_curve_target = None
    /\ bmesh_bend_deform_axis = "X"
    /\ bmesh_bend_animation_factor = 0
    /\ bmesh_bend_resolution = 8
    /\ bmesh_bend_strength = 1
    /\ matrix_world = IdentityMatrix
    /\ vertices \in Meshes
    /\ rest = vertices
    /\ cache = NoEntry
    /\ outcome = "none"
    /\ mapped = <<>>
    /\ steps = 0
    /\ deforms = 0
    /\ again = FALSE
    /\ edits = 0
    /\ s_curve = CurveObjects["Blank"]
    /\ s_resolution = 8
    /\ s_result = NotSampled

Next ==
    \/ \E b \in BOOLEAN : SetActive(b)
    \/ \E t \in CurveNames \cup {None} : SetCurveTarget(t)
    \/ \E a \in AxesTried : SetDeformAxis(a)
    \/ \E f \in AnimationFactors : SetAnimationFactor(f)
    \/ \E n \in Resolutions : SetResolution(n)
    \/ \E k \in Strengths : SetStrength(k)
    \/ BMBEND_OT_setup
    \/ BMBEND_OT_clear_cache
    \/ frame_change
    \/ \E m \in Transforms : depsgraph_update(m)
    \/ \E add \in BOOLEAN : EditMesh(add)

Spec == Init /\ [][Next]_vars

InitSample ==
    /\ bmesh_bend_active = FALSE
    /\ bmesh_bend_curve_target = None
    /\ bmesh_bend_deform_axis = "X"
    /\ bmesh_bend_animation_factor = 0
    /\ bmesh_bend_resolution = 8
    /\ bmesh_bend_strength = 1
    /\ matrix_world = IdentityMatrix
    /\ vertices = <<>>
    /\ rest = <<>>
    /\ cache = NoEntry
    /\ outcome = "none"
    /\ mapped = <<>>
    /\ steps = 0
    /\ edits = 0
    /\ deforms = 0
    /\ again = FALSE
    /\ s_curve \in SampledCurves
    /\ s_resolution \in Resolutions
    /\ s_result = NotSampled

NextSample == SampleCurve

SpecSample == InitSample /\ [][NextSample]_vars


\* ========================================================================
\* Claims
\* ========================================================================
DeformRan == outcome \in {"deformed", "no_samples", "ValueError"}

\* ---- C1 ----------------------------------------------------------------
\* C1: a restore on a mesh with as many vertices as the cached RestPose
\* leaves the live coordinates equal, index by index, to the coordinates
\* the RestPose held before the call, whatever deform passes ran since the
\* capture; a restore with no RestPose leaves the live coordinates as they
\* were.
C1_RestoreReproducesRestPose ==
    [][ /\ (outcome' = "restored" /\ cache.has_orig
              /\ Len(vertices) = Len(cache.orig_coords))
           => (vertices' = cache.orig_coords /\ cache'.orig_coords = cache.orig_coords)
        /\ (outcome' = "restore_noop") => (vertices' = vertices)
      ]_vars

\* A restore that followed at least two deform passes from the same RestPose.
C1_Witness ==
    /\ outcome = "restored"
    /\ deforms >= 2
    /\ Len(vertices) = 2
    /\ vertices = cache.orig_coords

\* ---- C2 ----------------------------------------------------------------
\* C2: with no edit of the mesh, whenever deform_object has run, the rest
\* coordinates it read (the cached orig_coords) are the undeformed
\* coordinates of the mesh.
C2_ReadsUndeformedRest ==
    (DeformRan /\ edits = 0) => cache.orig_coords = rest

\* ---- C3 ----------------------------------------------------------------
\* C3: with no edit of the mesh, the step that deactivates an active mesh
\* with a curve assigned, or clears its curve, ends with the live
\* coordinates equal to the undeformed coordinates.
C3_DeactivateRestores ==
    [][ (/\ bmesh_bend_active /\ bmesh_bend_curve_target # None
         /\ (~bmesh_bend_active' \/ bmesh_bend_curve_target' = None)
         /\ edits' = 0)
        => vertices' = rest'
      ]_vars

\* ---- C4 ----------------------------------------------------------------
\* C4: a deform pass that follows a deform pass with the same curve, the
\* same parameters, the same world transform and the same RestPose writes
\* the coordinates the first pass wrote.
C4_DeformIdempotent ==
    [][ (/\ outcome = "deformed" /\ outcome' = "deformed"
         /\ DeformInputs' = DeformInputs
         /\ cache' = cache)
        => vertices' = vertices
      ]_vars

\* A repeated pass on a mesh the first pass had moved away from rest.
C4_Witness ==
    /\ again
    /\ outcome = "deformed"
    /\ Len(vertices) = 2
    /\ vertices # cache.orig_coords

\* ---- C5 ----------------------------------------------------------------
\* C5: a deform pass over a mesh whose vertex count differs from the length
\* of the cached RestPose ends as TopologyMismatchError, and no deform pass
\* ends with only some of the vertices rewritten.
C5_MismatchFailsUnmodified ==
    /\ (outcome = "deformed" /\ Len(vertices) # Len(cache.orig_coords))
          => outcome = "TopologyMismatchError"
    /\ outcome = "deformed" => Len(mapped) = Len(vertices)

\* ---- C6 ----------------------------------------------------------------
SomeZeroTangent == \E k \in 1..Len(s_result.tangents) : s_result.tangents[k] = Zero3

\* C6: when a sampled tangent has zero length, sample_curve ends as
\* DegenerateCurveError and returns no frames.
C6_ZeroTangentFails ==
    (s_result.called /\ SomeZeroTangent)
        => (s_result.raised = "DegenerateCurveError" /\ s_result.frames = <<>>)

\* ---- C7 ----------------------------------------------------------------
Orthonormal(frame) ==
    /\ \A i \in 1..3 : Dot(frame[i], frame[i]) = 1
    /\ \A i, j \in 1..3 : i # j => Dot(frame[i], frame[j]) = 0
    /\ frame[3] = Cross(frame[1], frame[2])

\* C7: on a curve whose sampled tangents are all non-zero (and whose first
\* tangent is not along the up vector, so that a first normal exists), every
\* frame sample_curve returns is three unit vectors, pairwise orthogonal,
\* with binormal = tangent x normal.
C7_FramesOrthonormal ==
    (/\ s_result.called
     /\ ~SomeZeroTangent
     /\ Len(s_result.tangents) > 0
     /\ Cross(Up, s_result.tangents[1]) # Zero3)
        => \A k \in 1..Len(s_result.frames) : Orthonormal(s_result.frames[k])

\* ---- C8 ----------------------------------------------------------------
\* The scenario: the straight curve from (0,0,0) to (10,0,0), identity
\* transforms, resolution 8, axis +X, animation factor 0, strength 1, a mesh
\* whose only vertex rests at (5,1,0), deformed.
C8_Scenario ==
    /\ outcome = "deformed"
    /\ bmesh_bend_curve_target = "Line"
    /\ matrix_world = IdentityMatrix
    /\ bmesh_bend_resolution = 8
    /\ bmesh_bend_deform_axis = "X"
    /\ bmesh_bend_animation_factor = 0
    /\ bmesh_bend_strength = 1
    /\ cache.orig_coords = <<<<40, 8, 0>>>>
    /\ cache.cached_matrix = IdentityMatrix
    /\ Len(vertices) = 1

\* C8 as stated: in the scenario the vertex is written at (5,1,0).
C8_WritesRestPosition == C8_Scenario => vertices = <<<<40, 8, 0>>>>

\* C8 amended: in the scenario the vertex is written at (0,0,1) -- the start
\* of the curve (its coordinate along the axis is the bounding-box minimum),
\* offset by 1 along the frame's normal, the world up vector.
C8_WritesCurveStartPlusNormal == C8_Scenario => vertices = <<<<0, 0, 8>>>>

C8_Witness == C8_Scenario /\ steps = 2

\* ---- C9 ----------------------------------------------------------------
\* C9: in a deform pass, for every vertex, the bracketing indices satisfy
\* 0 <= i0 <= i1 < len(lengths) and the fraction lies in [0,1]; a vertex
\* whose unclamped position is >= curve_len gets the last sampled point as
\* its curve point, one whose unclamped position is <= 0 gets the first.
C9_BoundaryClamp ==
    outcome = "deformed" =>
        \A sc \in {SampleTable[<<CurveObjects[bmesh_bend_curve_target], bmesh_bend_resolution>>]} :
        LET n == Len(sc.lengths)
        IN \A k \in 1..Len(mapped) :
              LET m == mapped[k]
              IN /\ 0 <= m.i0 /\ m.i0 <= m.i1 /\ m.i1 < n
                 /\ m.den > 0 /\ 0 <= m.num /\ m.num <= m.den
                 /\ (m.sraw >= sc.lengths[n] => m.point = sc.points[n])
                 /\ (m.sraw <= 0 => m.point = sc.points[1])

\* A pass over the curve with a repeated table value, one vertex at the low
\* end and one beyond the end of the curve.
C9_Witness ==
    /\ outcome = "deformed"
    /\ bmesh_bend_curve_target = "Joined"
    /\ \E k \in 1..Len(mapped) : mapped[k].sraw <= 0
    /\ \E k \in 1..Len(mapped) : mapped[k].sraw > 32 /\ mapped[k].i1 = 2 * bmesh_bend_resolution + 1

\* ---- C10 ---------------------------------------------------------------
\* C10: a deform call whose curve yields no samples returns without an
\* error and leaves every live coordinate as it was.
C10_NoSamplesNoChange ==
    [][ (outcome' = "no_samples") => (vertices' = vertices) ]_vars

\* The no-op on a mesh an earlier pass had deformed.
C10_Witness ==
    /\ outcome = "no_samples"
    /\ bmesh_bend_curve_target \in {"Dot", "Blank"}
    /\ deforms >= 1
    /\ vertices # cache.orig_coords

====
